---- MODULE Spec2Model ----
(***************************************************************************)
(* A model of the L1 syncer (package syncer, type L1Syncer): the endpoint  *)
(* rotator getNextEtherman, Run and its poll loop, getLatestL1Block, the   *)
(* cycle coordinator queryBlocks and the fetch workers getSequencedLogs,   *)
(* the backward resolver GetOldAccInputHash with                           *)
(* callGetRollupSequencedBatches, and the block lookup L1QueryBlocks.      *)
(*                                                                         *)
(* Every goroutine is a process whose position is a "pc" field.  One       *)
(* execution of queryBlocks is a "cycle"; its channels (jobs, results,     *)
(* stop), its locals and the workers it starts are indexed by the cycle,   *)
(* because workers of a cycle that returned early keep running on the      *)
(* channels of that cycle.                                                 *)
(*                                                                         *)
(* uint64 values stay far below 2^64 in every run, so additions are exact; *)
(* a uint64 subtraction a - b is kept as its representative a - b modulo   *)
(* 2^64 (negative when the subtraction wraps), see Sub64.                  *)
(***************************************************************************)
EXTENDS Integers, Sequences, FiniteSets, TLC

\* ---------------------------------------------------------------- constants
\* var batchWorkers = 2
batchWorkers == 2
\* "if retry > 5" in getSequencedLogs
MaxRetries == 5
\* ethermanIndex is a uint8
Uint8Mod == 256
\* "if loopCount == 10" in GetOldAccInputHash
MaxLoopCount == 10
\* "if len(resp) < 32" and "if len(resp) < 96" in callGetRollupSequencedBatches
HashBytes == 32
RespBytes == 96
\* types.ZeroHash, common.Hash{}
ZeroHash == 0

\* ------------------------------------------------------------------- bounds
\* The engine with several callers:
\* Run invocations made by the callers of the engine
MaxRunCalls == 2
\* latest-block queries (poll iterations) made by all poll loops together
MaxPolls == 2
\* greatest finalized block number an endpoint reports
MaxBlock == 1
\* greatest checkpoint a caller passes to Run
MaxCheckpoint == 1
\* failing log queries, log queries that find logs, ticker firings
MaxFails == 1
MaxLogs == 1
MaxTicks == 1
\* The endless poll loop of one Run: greatest finalized block and checkpoint,
\* failing endpoint calls, log queries that find logs, ticker firings
LoopMaxBlock == 2
LoopMaxCheckpoint == 1
LoopFails == 6
LoopLogs == 1
LoopTicks == 1
\* A single cycle: the same, for one Run and one poll iteration
CycleMaxBlock == 4
CycleFails == 12
CycleLogs == 3
CycleTicks == 1
\* greatest block number and width given to the range planner alone
MaxPlanBlock == 6
MaxPlanRange == 3
\* getNextEtherman calls made by the rotator's clients alone
MaxRotCalls == 258
\* concurrent clients of the rotator
NumRotCallers == 2

\* greatest thread count and log count L1QueryBlocks is called with, and the
\* number of logs that share a block
MaxThreads == 2
MaxLogCount == 9
LogsPerBlock == 2
\* greatest batch number GetOldAccInputHash is called with, and greatest
\* previousBatchNumber the contract reports
MaxBatch == 11
MaxPrev == 2

\* endpoints and block range the engine is constructed with
NumEtherMans == 1
BlockRange == 1

Calls == 1..MaxRunCalls
Cycles == 1..MaxPolls
Workers == 1..batchWorkers
RotCallers == 1..NumRotCallers
\* lengths of the endpoint list tried by the rotator's clients
RotLens == {1, 2, 3, Uint8Mod - 1, Uint8Mod}

VARIABLES
    etherMansLen,        \* len(s.etherMans)
    blockRange,          \* s.blockRange
    ethermanIndex,       \* s.ethermanIndex (uint8)
    ethermanMtx,         \* s.ethermanMtx: 0 when free, else the holder
    latestL1Block,       \* s.latestL1Block
    isSyncStarted,       \* s.isSyncStarted
    isDownloading,       \* s.isDownloading
    lastCheckedL1Block,  \* s.lastCheckedL1Block
    env,                 \* what the callers and the endpoints may do (see Env)
    run,                 \* run[c]: one invocation of Run
    loop,                \* loop[c]: the goroutine started by invocation c
    used,                \* what the endpoints and the ticker have done so far
    history,             \* what has been observed so far (see Init)
    qb,                  \* qb[k]: one execution of queryBlocks
    wk,                  \* wk[k][w]: worker w started by cycle k
    gne,                 \* gne[p]: a client inside getNextEtherman
    returned,            \* endpoints returned to the rotator's clients, in order
    oah,                 \* one invocation of GetOldAccInputHash
    lqb                  \* one invocation of L1QueryBlocks

vars == <<etherMansLen, blockRange, ethermanIndex, ethermanMtx, latestL1Block,
          isSyncStarted, isDownloading, lastCheckedL1Block, env, run, loop,
          used, history, qb, wk, gne, returned, oah, lqb>>

config == <<etherMansLen, blockRange, env>>
\* the poll loops, their cycles and workers
engine == <<latestL1Block, isSyncStarted, isDownloading, lastCheckedL1Block,
            run, loop, used, history, qb, wk>>
rotator == <<gne, returned>>
\* the callers of GetOldAccInputHash and L1QueryBlocks
callers == <<oah, lqb>>

\* ------------------------------------------------------------------ helpers
Uint8(n) == n % Uint8Mod

\* uint64 a - b, as its representative modulo 2^64 nearest to zero
Sub64(a, b) == a - b

Last(s) == s[Len(s)]
Max(a, b) == IF a >= b THEN a ELSE b

\* error == nil
NoErr == [job |-> -1, attempt |-> 0]
\* the error of attempt n of the log query of the job starting at from
QueryErr(from, n) == [job |-> from, attempt |-> n]

NoJob == [From |-> 0, To |-> 0]

\* ------------------------------------------------------- getNextEtherman
\* "if s.ethermanIndex >= uint8(len(s.etherMans)) { s.ethermanIndex = 0 }"
WrapIndex(idx, n) == IF idx >= Uint8(n) THEN 0 ELSE idx

\* s.ethermanIndex++
IncIndex(idx) == Uint8(idx + 1)

\* The whole of getNextEtherman, as one step of a goroutine of the engine:
\* the mutex makes the body atomic with respect to every other caller.
GetNextEtherman ==
    /\ ethermanMtx = 0
    /\ ethermanIndex' = IncIndex(WrapIndex(ethermanIndex, etherMansLen))
    /\ UNCHANGED ethermanMtx

\* The same body step by step, for clients that do nothing else.
GneLock(p) ==
    /\ gne[p].pc = "idle"
    /\ Len(returned) + Cardinality({q \in RotCallers : gne[q].pc # "idle"}) < MaxRotCalls
    /\ ethermanMtx = 0
    /\ ethermanMtx' = p
    /\ gne' = [gne EXCEPT ![p].pc = "wrap"]
    /\ UNCHANGED <<ethermanIndex, returned>>

GneWrap(p) ==
    /\ gne[p].pc = "wrap"
    /\ ethermanIndex' = WrapIndex(ethermanIndex, etherMansLen)
    /\ gne' = [gne EXCEPT ![p].pc = "read"]
    /\ UNCHANGED <<ethermanMtx, returned>>

GneRead(p) ==
    /\ gne[p].pc = "read"
    /\ gne' = [gne EXCEPT ![p].pc = "inc", ![p].etherman = ethermanIndex]
    /\ UNCHANGED <<ethermanMtx, ethermanIndex, returned>>

GneInc(p) ==
    /\ gne[p].pc = "inc"
    /\ ethermanIndex' = IncIndex(ethermanIndex)
    /\ gne' = [gne EXCEPT ![p].pc = "unlock"]
    /\ UNCHANGED <<ethermanMtx, returned>>

GneUnlock(p) ==
    /\ gne[p].pc = "unlock"
    /\ ethermanMtx' = 0
    /\ returned' = Append(returned, gne[p].etherman)
    /\ gne' = [gne EXCEPT ![p] = [pc |-> "idle", etherman |-> 0]]
    /\ UNCHANGED ethermanIndex

RotatorStep(p) ==
    /\ GneLock(p) \/ GneWrap(p) \/ GneRead(p) \/ GneInc(p) \/ GneUnlock(p)
    /\ UNCHANGED <<config, latestL1Block, isSyncStarted, isDownloading,
                   lastCheckedL1Block, run, loop, used, history, qb, wk,
                   callers>>

\* ------------------------------------------------------------ initial values
NoRun == [pc |-> "idle", arg |-> 0, late |-> FALSE]
NoLoop == [pc |-> "none", latestL1Block |-> 0, cycle |-> 0]
NoCycle == [pc |-> "none", startBlock |-> 0, low |-> 0, high |-> 0,
            fetches |-> <<>>, jobs |-> <<>>, results |-> <<>>, stop |-> "none",
            complete |-> 0, progress |-> 0, aimingFor |-> 0, logs |-> <<>>,
            err |-> NoErr, sentLogs |-> <<>>, sentProgress |-> 0,
            emitted |-> <<>>, emittedLogs |-> <<>>, before |-> -1, after |-> -1]
NoWorker == [pc |-> "none", job |-> NoJob, retry |-> 0, queries |-> 0,
             ethermen |-> 0, slept |-> <<>>, sinceStop |-> 0]
\* (sinceStop: attempts of the current job made with stop already closed)
\* a worker at the select of getSequencedLogs, and one that returned; the
\* locals of the job before are out of scope
Selecting == [NoWorker EXCEPT !.pc = "select"]
Exited == [NoWorker EXCEPT !.pc = "exit"]
\* a nil *ethTypes.Block, and the block an endpoint returns for a number
NoBlock == [number |-> -1]
Block(n) == [number |-> n]
\* an error interface value is two words, the type and the data; nil is both
\* zero, and the error of the lookup of log j has both words ErrOf(j)
NilErr == [tab |-> 0, data |-> 0]
ErrOf(j) == j + 1
\* L1QueryBlocks not yet called.  logs[j + 1] is logs[j].BlockNumber; th[c + 1]
\* is the goroutine with cpuI = c; blocksMap is a set of [key, block];
\* failed is the set of log indices whose lookup failed and resolvedBy[j + 1]
\* the goroutines (0 on the sequential path) that looked log j up, in order
NoLqb == [pc |-> "idle", numThreads |-> 0, logs |-> <<>>, path |-> "none",
          i |-> 0, th |-> <<>>, blocksArray |-> <<>>, err |-> NilErr,
          blocksMap |-> {},
          result |-> [returned |-> FALSE, hasMap |-> FALSE, blocksMap |-> {},
                      err |-> NilErr],
          failed |-> {}, resolvedBy |-> <<>>]
NoGne == [pc |-> "idle", etherman |-> 0]
\* the locals h, previousBatch, err of GetOldAccInputHash before the first call
NoReturn == [h |-> ZeroHash, previousBatch |-> 0, err |-> "nil"]
\* no response of the contract yet
NoResponse == [failed |-> FALSE, len |-> 0, hash |-> ZeroHash, prev |-> 0]
\* GetOldAccInputHash not yet called.  start is the batchNum passed; resp is
\* the last response of the contract and shortAt the batch number, above 0,
\* for which the response before it was shorter than 96 bytes, else 0; calls
\* counts the contract calls while every response so far was a well-formed
\* zero hash with previousBatchNumber 0 at a batch number above 0, or a
\* non-zero hash, and is -1 afterwards; zeroAtZero says that the call started
\* at batch 0 and got only well-formed zero hashes with previousBatchNumber 0
NoOah == [pc |-> "idle", start |-> 0, batchNum |-> 0, loopCount |-> 0,
          resp |-> NoResponse, shortAt |-> 0,
          ret |-> NoReturn, sleeps |-> 0, calls |-> 0, zeroAtZero |-> FALSE,
          result |-> [h |-> ZeroHash, err |-> "nil"]]
\* seeded: a Run has stored its checkpoint; latestKnown: a latest-block query
\* has succeeded; returnedRuns: Run invocations that started a loop and
\* returned; highest: the greatest checkpoint passed and block reported so far
NoHistory == [seeded |-> FALSE, latestKnown |-> FALSE, returnedRuns |-> 0,
              highest |-> 0]

\* What the surroundings of the engine do at most in one behaviour: runs is
\* the number of Run invocations, polls the number of latest-block queries
\* the endpoints answer, block the greatest finalized block and checkpoint the
\* greatest checkpoint, fails the number of failing log queries, logs the
\* number of log queries that find logs, ticks the number of ticker firings.
Env(runs, polls, block, checkpoint, fails, logs, ticks) ==
    [runs |-> runs, polls |-> polls, block |-> block, checkpoint |-> checkpoint,
     fails |-> fails, logs |-> logs, ticks |-> ticks, endless |-> FALSE]
\* The same surroundings with endpoints that answer latest-block queries for
\* ever ("for { ... }" has no exit): polls are not counted, a failing
\* latest-block query counts as one of the fails, and an iteration takes the
\* cycle record of an earlier cycle that returned and whose workers exited.
Endless(e) == [e EXCEPT !.endless = TRUE]
NoEnv == Env(0, 0, 0, 0, 0, 0, 0)
NoneUsed == [polls |-> 0, fails |-> 0, logs |-> 0, ticks |-> 0]

\* The engine right after NewL1Syncer, with n endpoints and block range r,
\* in surroundings e.
Constructed(n, r, e) ==
    /\ etherMansLen = n
    /\ blockRange = r
    /\ env = e
    /\ used = NoneUsed
    /\ ethermanIndex = 0
    /\ ethermanMtx = 0
    /\ latestL1Block = 0
    /\ isSyncStarted = FALSE
    /\ isDownloading = FALSE
    /\ lastCheckedL1Block = 0
    /\ run = [c1 \in Calls |-> NoRun]
    /\ loop = [c1 \in Calls |-> NoLoop]
    /\ history = NoHistory
    /\ qb = [k \in Cycles |-> NoCycle]
    /\ wk = [k \in Cycles |-> [w \in Workers |-> NoWorker]]
    /\ gne = [p \in RotCallers |-> NoGne]
    /\ returned = <<>>
    /\ oah = NoOah
    /\ lqb = NoLqb

\* ---------------------------------------------------------------------- Run
\* "if s.isSyncStarted.Load() { return }", for a checkpoint the caller chooses
RunCheck(c) ==
    /\ c <= env.runs
    /\ run[c].pc = "idle"
    /\ \E arg \in 0..env.checkpoint :
         run' = [run EXCEPT ![c] =
                   [pc |-> IF isSyncStarted THEN "done" ELSE "storeDownloading",
                    arg |-> arg,
                    late |-> history.returnedRuns > 0]]
         /\ history' = [history EXCEPT !.highest = Max(@, arg)]
    /\ UNCHANGED <<config, ethermanIndex, ethermanMtx, latestL1Block,
                   isSyncStarted, isDownloading, lastCheckedL1Block, loop,
                   used, qb, wk, rotator, callers>>

\* s.isDownloading.Store(true)
RunStoreDownloading(c) ==
    /\ run[c].pc = "storeDownloading"
    /\ isDownloading' = TRUE
    /\ run' = [run EXCEPT ![c].pc = "storeLastChecked"]
    /\ UNCHANGED <<config, ethermanIndex, ethermanMtx, latestL1Block,
                   isSyncStarted, lastCheckedL1Block, loop, used, history, qb,
                   wk, rotator, callers>>

\* s.lastCheckedL1Block.Store(lastCheckedBlock)
RunStoreLastChecked(c) ==
    /\ run[c].pc = "storeLastChecked"
    /\ lastCheckedL1Block' = run[c].arg
    /\ run' = [run EXCEPT ![c].pc = "go"]
    /\ history' = [history EXCEPT !.seeded = TRUE]
    /\ UNCHANGED <<config, ethermanIndex, ethermanMtx, latestL1Block,
                   isSyncStarted, isDownloading, loop, used, qb, wk, rotator, callers>>

\* "go func() { ... }()" and the return of Run
RunGo(c) ==
    /\ run[c].pc = "go"
    /\ loop' = [loop EXCEPT ![c].pc = "start"]
    /\ run' = [run EXCEPT ![c].pc = "done"]
    /\ history' = [history EXCEPT !.returnedRuns = @ + 1]
    /\ UNCHANGED <<config, ethermanIndex, ethermanMtx, latestL1Block,
                   isSyncStarted, isDownloading, lastCheckedL1Block, used, qb, wk,
                   rotator, callers>>

\* ------------------------------------------------------------- the poll loop
\* s.isSyncStarted.Store(true), the first statement of the goroutine
LoopStart(l) ==
    /\ loop[l].pc = "start"
    /\ isSyncStarted' = TRUE
    /\ loop' = [loop EXCEPT ![l].pc = "poll"]
    /\ UNCHANGED <<config, ethermanIndex, ethermanMtx, latestL1Block,
                   isDownloading, lastCheckedL1Block, run, used, history, qb,
                   wk, rotator, callers>>

\* the cycle records an iteration of an endless loop can take
FreeCycles ==
    {k \in Cycles : /\ qb[k].pc \in {"none", "done"}
                    /\ \A w \in Workers : wk[k][w].pc \in {"none", "exit"}
                    /\ \A l \in Calls : loop[l].pc = "poll" \/ loop[l].cycle # k}

\* getLatestL1Block, when BlockByNumber fails
GetLatestFails(l) ==
    /\ loop[l].pc = "poll"
    /\ IF env.endless
       THEN /\ used.fails < env.fails
            /\ used' = [used EXCEPT !.fails = @ + 1]
       ELSE /\ used.polls < env.polls
            /\ used' = [used EXCEPT !.polls = @ + 1]
    /\ GetNextEtherman
    /\ loop' = [loop EXCEPT ![l].pc = "clearDownloading"]
    /\ UNCHANGED <<config, latestL1Block, isSyncStarted, isDownloading,
                   lastCheckedL1Block, run, history, qb, wk, rotator, callers>>

\* getLatestL1Block, when the endpoint reports a finalized block:
\* "latest := latestBlock.NumberU64()"
GetLatestL1Block(l) ==
    /\ loop[l].pc = "poll"
    /\ IF env.endless
       THEN FreeCycles # {} /\ UNCHANGED used
       ELSE used.polls < env.polls /\ used' = [used EXCEPT !.polls = @ + 1]
    /\ GetNextEtherman
    /\ \E latest \in 0..env.block :
         /\ loop' = [loop EXCEPT ![l] = [pc |-> "storeLatest",
                                          latestL1Block |-> latest,
                                          cycle |-> IF env.endless
                                                    THEN CHOOSE k \in FreeCycles : TRUE
                                                    ELSE used.polls + 1]]
         /\ history' = [history EXCEPT !.highest = Max(@, latest)]
    /\ UNCHANGED <<config, latestL1Block, isSyncStarted, isDownloading,
                   lastCheckedL1Block, run, qb, wk, rotator, callers>>

\* "s.latestL1Block = latest; return latest, nil"
StoreLatest(l) ==
    /\ loop[l].pc = "storeLatest"
    /\ latestL1Block' = loop[l].latestL1Block
    /\ loop' = [loop EXCEPT ![l].pc = "compare"]
    /\ history' = [history EXCEPT !.latestKnown = TRUE]
    /\ UNCHANGED <<config, ethermanIndex, ethermanMtx, isSyncStarted,
                   isDownloading, lastCheckedL1Block, run, used, qb, wk,
                   rotator, callers>>

\* (a loop that also starts a cycle when nothing is new)
StartsCycleAlways(latest, lastChecked) == latest >= lastChecked

\* "if latestL1Block > s.lastCheckedL1Block.Load()"
StartsCycle(latest, lastChecked) == latest > lastChecked

LoopCompare(l) ==
    /\ loop[l].pc = "compare"
    /\ loop' = [loop EXCEPT ![l].pc =
                   IF StartsCycle(loop[l].latestL1Block, lastCheckedL1Block)
                   THEN "setDownloading" ELSE "clearDownloading"]
    /\ UNCHANGED <<config, ethermanIndex, ethermanMtx, latestL1Block,
                   isSyncStarted, isDownloading, lastCheckedL1Block, run, used,
                   history, qb, wk, rotator, callers>>

\* s.isDownloading.Store(true), and the call of queryBlocks
LoopSetDownloading(l) ==
    /\ loop[l].pc = "setDownloading"
    /\ isDownloading' = TRUE
    /\ loop' = [loop EXCEPT ![l].pc = "queryBlocks"]
    /\ qb' = [qb EXCEPT ![loop[l].cycle] = [NoCycle EXCEPT !.pc = "load"]]
    /\ wk' = [wk EXCEPT ![loop[l].cycle] = [w \in Workers |-> NoWorker]]
    /\ UNCHANGED <<config, ethermanIndex, ethermanMtx, latestL1Block,
                   isSyncStarted, lastCheckedL1Block, run, used, history,
                   rotator, callers>>

\* (a loop that stores the block after the one it has seen)
CheckpointAhead(err, latest, lastChecked) ==
    IF err = NoErr THEN latest + 1 ELSE lastChecked

\* what the loop stores after queryBlocks returned err, having seen latest
Checkpoint(err, latest, lastChecked) ==
    IF err = NoErr THEN latest ELSE lastChecked

\* "if err := s.queryBlocks(); err != nil { log } else { Store(latestL1Block) }"
LoopCommit(l) ==
    LET k == loop[l].cycle IN
    /\ loop[l].pc = "queryBlocks"
    /\ qb[k].pc = "return"
    /\ lastCheckedL1Block' =
          Checkpoint(qb[k].err, loop[l].latestL1Block, lastCheckedL1Block)
    /\ qb' = [qb EXCEPT ![k].pc = "done",
                        ![k].before = lastCheckedL1Block,
                        ![k].after = lastCheckedL1Block']
    /\ loop' = [loop EXCEPT ![l].pc = "clearDownloading"]
    /\ UNCHANGED <<config, ethermanIndex, ethermanMtx, latestL1Block,
                   isSyncStarted, isDownloading, run, used, history, wk,
                   rotator, callers>>

\* s.isDownloading.Store(false), then the sleep of queryDelay milliseconds
LoopClearDownloading(l) ==
    /\ loop[l].pc = "clearDownloading"
    /\ isDownloading' = FALSE
    /\ loop' = [loop EXCEPT ![l].pc = "poll"]
    /\ UNCHANGED <<config, ethermanIndex, ethermanMtx, latestL1Block,
                   isSyncStarted, lastCheckedL1Block, run, used, history, qb,
                   wk, rotator, callers>>

\* ------------------------------------------------- queryBlocks: the planner
\* startBlock := s.lastCheckedL1Block.Load(); fetches := empty; low := startBlock
QbLoad(k) ==
    /\ qb[k].pc = "load"
    /\ qb' = [qb EXCEPT ![k].pc = "planHigh",
                        ![k].startBlock = lastCheckedL1Block,
                        ![k].low = lastCheckedL1Block,
                        ![k].fetches = <<>>]
    /\ UNCHANGED <<config, ethermanIndex, ethermanMtx, latestL1Block,
                   isSyncStarted, isDownloading, lastCheckedL1Block, run, loop,
                   used, history, wk, rotator, callers>>

\* "high := low + s.blockRange; if high > s.latestL1Block"
QbPlanHigh(k) ==
    /\ qb[k].pc = "planHigh"
    /\ LET high == qb[k].low + blockRange IN
       qb' = [qb EXCEPT ![k].high = high,
                        ![k].pc = IF high > latestL1Block
                                  THEN "planClip" ELSE "planAppend"]
    /\ UNCHANGED <<config, ethermanIndex, ethermanMtx, latestL1Block,
                   isSyncStarted, isDownloading, lastCheckedL1Block, run, loop,
                   used, history, wk, rotator, callers>>

\* "high = s.latestL1Block"
QbPlanClip(k) ==
    /\ qb[k].pc = "planClip"
    /\ qb' = [qb EXCEPT ![k].high = latestL1Block, ![k].pc = "planAppend"]
    /\ UNCHANGED <<config, ethermanIndex, ethermanMtx, latestL1Block,
                   isSyncStarted, isDownloading, lastCheckedL1Block, run, loop,
                   used, history, wk, rotator, callers>>

\* (a planner whose next job starts on the last block of the job before)
NextLowOverlapping(low, width) == low + width

\* the low of the job after the job starting at low
NextLow(low, width) == low + width + 1

\* "fetches = append(...); if high == s.latestL1Block { break }; low += ..."
QbPlanAppend(k) ==
    /\ qb[k].pc = "planAppend"
    /\ qb' = [qb EXCEPT
                ![k].fetches = Append(@, [From |-> qb[k].low, To |-> qb[k].high]),
                ![k].low = IF qb[k].high = latestL1Block
                           THEN @ ELSE NextLow(@, blockRange),
                ![k].pc = IF qb[k].high = latestL1Block
                          THEN "spawn" ELSE "planHigh"]
    /\ UNCHANGED <<config, ethermanIndex, ethermanMtx, latestL1Block,
                   isSyncStarted, isDownloading, lastCheckedL1Block, run, loop,
                   used, history, wk, rotator, callers>>

Planner(k) == QbLoad(k) \/ QbPlanHigh(k) \/ QbPlanClip(k) \/ QbPlanAppend(k)

\* -------------------------------------------- queryBlocks: the coordinator
\* how many results the workers of a cycle have sent, by the From of the job
NoEmissions(fetches) ==
    [from \in {fetches[i].From : i \in 1..Len(fetches)} |-> 0]

\* "stop := make(chan bool); jobs := ...; results := ...", the start of the
\* workers, the enqueueing of every job, close(jobs), and
\* "aimingFor := s.latestL1Block - startBlock".  No worker step can come
\* between the start of the workers and close(jobs): a worker blocks until a
\* job is in the queue, and the queue holds every job without blocking.
QbSpawn(k) ==
    /\ qb[k].pc = "spawn"
    /\ qb' = [qb EXCEPT ![k].pc = "receive",
                        ![k].stop = "open",
                        ![k].jobs = qb[k].fetches,
                        ![k].results = <<>>,
                        ![k].progress = 0,
                        ![k].complete = 0,
                        ![k].aimingFor = Sub64(latestL1Block, qb[k].startBlock),
                        ![k].emitted = NoEmissions(qb[k].fetches)]
    /\ wk' = [wk EXCEPT ![k] = [w \in Workers |-> Selecting]]
    /\ UNCHANGED <<config, ethermanIndex, ethermanMtx, latestL1Block,
                   isSyncStarted, isDownloading, lastCheckedL1Block, run, loop,
                   used, history, rotator, callers>>

\* (a coordinator that stops waiting one result early)
CompletesEarly(complete, fetches) == complete + 1 >= Len(fetches)

\* "if complete == len(fetches) { close(stop); break loop }", then "return nil"
Completes(complete, fetches) == complete = Len(fetches)

\* cycle c after the check of "complete == len(fetches)"
AfterResult(c) ==
    IF Completes(c.complete, c.fetches)
    THEN [c EXCEPT !.pc = "return", !.stop = "closed"]
    ELSE [c EXCEPT !.pc = "receive"]

\* (a coordinator that notes an error result and keeps receiving)
ReceivedKeepsWaiting(c) ==
    LET res == Head(c.results)
        got == [c EXCEPT !.results = Tail(@), !.complete = @ + 1,
                         !.progress = @ + res.Size]
    IN  IF res.Error # NoErr
        THEN AfterResult([got EXCEPT !.err = res.Error])
        ELSE IF Len(res.Logs) > 0
             THEN [got EXCEPT !.pc = "sendLogs", !.logs = res.Logs]
             ELSE AfterResult(got)

\* cycle c after "case res := <-results" up to the send on logsChan
Received(c) ==
    LET res == Head(c.results)
        got == [c EXCEPT !.results = Tail(@), !.complete = @ + 1]
    IN  IF res.Error # NoErr
        THEN [got EXCEPT !.pc = "return", !.stop = "closed", !.err = res.Error]
        ELSE LET counted == [got EXCEPT !.progress = @ + res.Size]
             IN  IF Len(res.Logs) > 0
                 THEN [counted EXCEPT !.pc = "sendLogs", !.logs = res.Logs]
                 ELSE AfterResult(counted)

QbReceive(k) ==
    /\ qb[k].pc = "receive"
    /\ qb[k].results # <<>>
    /\ qb' = [qb EXCEPT ![k] = Received(qb[k])]
    /\ UNCHANGED <<config, ethermanIndex, ethermanMtx, latestL1Block,
                   isSyncStarted, isDownloading, lastCheckedL1Block, run, loop,
                   used, history, wk, rotator, callers>>

\* "s.logsChan <- res.Logs": the hand-off to the consumer of the log channel
QbSendLogs(k) ==
    /\ qb[k].pc = "sendLogs"
    /\ qb' = [qb EXCEPT ![k] =
                AfterResult([qb[k] EXCEPT !.sentLogs = Append(@, qb[k].logs),
                                          !.logs = <<>>])]
    /\ UNCHANGED <<config, ethermanIndex, ethermanMtx, latestL1Block,
                   isSyncStarted, isDownloading, lastCheckedL1Block, run, loop,
                   used, history, wk, rotator, callers>>

\* "case <-ticker.C: if aimingFor == 0 { continue }; s.progressMessageChan <- ..."
QbTick(k) ==
    /\ qb[k].pc = "receive"
    /\ used.ticks < env.ticks
    /\ used' = [used EXCEPT !.ticks = @ + 1]
    /\ qb' = [qb EXCEPT ![k].sentProgress =
                            IF qb[k].aimingFor = 0 THEN @ ELSE @ + 1]
    /\ UNCHANGED <<config, ethermanIndex, ethermanMtx, latestL1Block,
                   isSyncStarted, isDownloading, lastCheckedL1Block, run, loop,
                   history, wk, rotator, callers>>

\* ------------------------------------------------------- getSequencedLogs
\* "case <-stop: return"
WorkerStops(k, w) ==
    /\ wk[k][w].pc = "select"
    /\ qb[k].stop = "closed"
    /\ wk' = [wk EXCEPT ![k][w] = Exited]
    /\ UNCHANGED <<config, ethermanIndex, ethermanMtx, latestL1Block,
                   isSyncStarted, isDownloading, lastCheckedL1Block, run, loop,
                   used, history, qb, rotator, callers>>

\* "case j, ok := <-jobs: if !ok { return }": the queue is closed and empty
WorkerDrained(k, w) ==
    /\ wk[k][w].pc = "select"
    /\ qb[k].jobs = <<>>
    /\ wk' = [wk EXCEPT ![k][w] = Exited]
    /\ UNCHANGED <<config, ethermanIndex, ethermanMtx, latestL1Block,
                   isSyncStarted, isDownloading, lastCheckedL1Block, run, loop,
                   used, history, qb, rotator, callers>>

\* "case j, ok := <-jobs": a job is taken; select chooses among the ready
\* cases, so this step is possible whether or not stop is closed
WorkerTakes(k, w) ==
    /\ wk[k][w].pc = "select"
    /\ qb[k].jobs # <<>>
    /\ wk' = [wk EXCEPT ![k][w] = [Selecting EXCEPT !.pc = "query",
                                                    !.job = Head(qb[k].jobs)]]
    /\ qb' = [qb EXCEPT ![k].jobs = Tail(@)]
    /\ UNCHANGED <<config, ethermanIndex, ethermanMtx, latestL1Block,
                   isSyncStarted, isDownloading, lastCheckedL1Block, run, loop,
                   used, history, rotator, callers>>

\* (a worker that gives up one attempt early)
ExhaustedEarly(retry) == retry >= MaxRetries

\* "if retry > 5"
Exhausted(retry) == retry > MaxRetries

\* "time.Sleep(time.Duration(retry*2) * time.Second)", in seconds
Backoff(retry) == retry * 2

\* (a results channel that holds one result)
ResultsCapOne(fetches) == 1

\* "results := make(chan jobResult, len(fetches))"
ResultsCap(fetches) == Len(fetches)

\* "results <- jobResult{...}" by worker w; the send blocks while the channel
\* is full
Emits(k, w, res) ==
    /\ Len(qb[k].results) < ResultsCap(qb[k].fetches)
    /\ qb' = [qb EXCEPT ![k].results = Append(@, res),
                        ![k].emitted[wk[k][w].job.From] = @ + 1,
                        ![k].emittedLogs = IF res.Logs = <<>> THEN @
                                           ELSE Append(@, res.Logs)]

\* one attempt: "em := s.getNextEtherman(); logs, err = em.FilterLogs(...)"
\* returns an error
WorkerQueryFails(k, w) ==
    LET me == wk[k][w]
        tried == [me EXCEPT !.retry = @ + 1, !.queries = @ + 1, !.ethermen = @ + 1,
                            !.sinceStop = IF qb[k].stop = "closed" THEN @ + 1 ELSE @]
    IN  /\ me.pc = "query"
        /\ used.fails < env.fails
        /\ used' = [used EXCEPT !.fails = @ + 1]
        /\ GetNextEtherman
        /\ IF Exhausted(tried.retry)
           THEN /\ Emits(k, w,
                         [Size |-> 0,
                          Error |-> QueryErr(me.job.From, tried.queries),
                          Logs |-> <<>>])
                /\ wk' = [wk EXCEPT ![k][w] = Exited]
           ELSE /\ wk' = [wk EXCEPT ![k][w] =
                            [tried EXCEPT !.slept = Append(@, Backoff(tried.retry))]]
                /\ UNCHANGED qb
        /\ UNCHANGED <<config, latestL1Block, isSyncStarted, isDownloading,
                       lastCheckedL1Block, run, loop, history, rotator, callers>>

\* "Size: j.To - j.From"
ResultSize(job) == Sub64(job.To, job.From)

\* one attempt returns the logs of the range: none, or some
WorkerQuerySucceeds(k, w) ==
    LET me == wk[k][w]
    IN  /\ me.pc = "query"
        /\ GetNextEtherman
        /\ \/ /\ Emits(k, w, [Size |-> ResultSize(me.job), Error |-> NoErr,
                               Logs |-> <<>>])
              /\ UNCHANGED used
           \/ /\ used.logs < env.logs
              /\ used' = [used EXCEPT !.logs = @ + 1]
              /\ Emits(k, w, [Size |-> ResultSize(me.job), Error |-> NoErr,
                               Logs |-> <<me.job.From>>])
        /\ wk' = [wk EXCEPT ![k][w] = Selecting]
        /\ UNCHANGED <<config, latestL1Block, isSyncStarted, isDownloading,
                       lastCheckedL1Block, run, loop, history, rotator, callers>>


\* ------------------------------------------------------ GetOldAccInputHash
\* the hash the contract holds for batch b when it holds one (non-zero)
HashOf(b) == b + 1

\* What em.CallContract can give for batch b: an error, or a response of len
\* bytes whose first 32 bytes (when present) are hash and whose bytes 88..96
\* (when present) are previousBatchNumber prev.
Response(failed, len, hash, prev) ==
    [failed |-> failed, len |-> len, hash |-> hash, prev |-> prev]

Responses(b) ==
    {Response(TRUE, 0, ZeroHash, 0)}
    \cup {Response(FALSE, HashBytes - 1, ZeroHash, 0)}
    \cup {Response(FALSE, RespBytes - 1, h, 0) : h \in {ZeroHash, HashOf(b)}}
    \cup {Response(FALSE, RespBytes, h, p) : h \in {ZeroHash, HashOf(b)}, p \in 0..MaxPrev}

\* callGetRollupSequencedBatches, after the contract call gave resp
CallGetRollupSequencedBatches(resp) ==
    IF resp.failed THEN [h |-> ZeroHash, previousBatch |-> 0, err |-> "call"]
    ELSE IF resp.len < HashBytes
         THEN [h |-> ZeroHash, previousBatch |-> 0, err |-> "errorShortResponseLT32"]
    ELSE IF resp.len < RespBytes
         THEN [h |-> ZeroHash, previousBatch |-> 0, err |-> "errorShortResponseLT96"]
    ELSE [h |-> resp.hash, previousBatch |-> resp.prev, err |-> "nil"]

\* only the response too short for a hash is recognised
ShortResponseLT32Only(err) == err = "errorShortResponseLT32"

\* "err == errorShortResponseLT32 || err == errorShortResponseLT96"
ShortResponse(err) == err \in {"errorShortResponseLT32", "errorShortResponseLT96"}

\* a caller invokes GetOldAccInputHash(ctx, addr, rollupId, batchNum)
OahInvoke ==
    /\ oah.pc = "idle"
    /\ \E n \in 0..MaxBatch :
         oah' = [NoOah EXCEPT !.pc = "top", !.start = n, !.batchNum = n,
                              !.zeroAtZero = (n = 0)]
    /\ UNCHANGED <<config, engine, ethermanIndex, ethermanMtx, rotator, lqb>>

\* the budget is found spent one attempt too late
TooManyRetriesLate(loopCount) == loopCount > MaxLoopCount

\* "if loopCount == 10 { return common.Hash{}, fmt.Errorf("too many retries") }"
TooManyRetries(loopCount) == loopCount = MaxLoopCount

OahTop ==
    /\ oah.pc = "top"
    /\ oah' = IF TooManyRetries(oah.loopCount)
              THEN [oah EXCEPT !.pc = "done",
                               !.result = [h |-> ZeroHash, err |-> "too many retries"]]
              ELSE [oah EXCEPT !.pc = "call"]
    /\ UNCHANGED <<config, engine, ethermanIndex, ethermanMtx, rotator, lqb>>

\* the response continues a backward walk: a well-formed zero hash with
\* previousBatchNumber 0 at a batch above 0, or a non-zero hash that ends it
WalkResponse(b, resp) ==
    /\ ~resp.failed
    /\ resp.len >= RespBytes
    /\ \/ resp.hash # ZeroHash
       \/ resp.prev = 0 /\ b > 0

ZeroAtZeroResponse(b, resp) ==
    ~resp.failed /\ resp.len >= RespBytes /\ resp.hash = ZeroHash /\ resp.prev = 0
    /\ b = 0

\* the contract answered with fewer than the 96 bytes of a full response
Malformed(resp) == ~resp.failed /\ resp.len < RespBytes

\* "h, previousBatch, err := s.callGetRollupSequencedBatches(...)"
OahCall ==
    /\ oah.pc = "call"
    /\ GetNextEtherman
    /\ \E resp \in Responses(oah.batchNum) :
         oah' = [oah EXCEPT !.pc = "handle",
                            !.resp = resp,
                            !.ret = CallGetRollupSequencedBatches(resp),
                            !.calls = IF @ >= 0 /\ WalkResponse(oah.batchNum, resp)
                                      THEN @ + 1 ELSE -1,
                            !.zeroAtZero = @ /\ ZeroAtZeroResponse(oah.batchNum, resp)]
    /\ UNCHANGED <<config, engine, rotator, lqb>>

\* the walk back is not taken from batch 1
WalksBackAboveOne(batchNum, previousBatch) == batchNum > 1 /\ previousBatch = 0

\* the batch number tried after a zero hash: one behind when previousBatch is
\* 0 and batchNum > 0, previousBatch otherwise
WalksBack(batchNum, previousBatch) == batchNum > 0 /\ previousBatch = 0

\* the loop body with a pointer follow that does not count as an attempt
HandledUncounted(o) ==
    IF o.ret.err # "nil"
    THEN IF o.batchNum > 0 /\ ShortResponse(o.ret.err)
         THEN [o EXCEPT !.pc = "top", !.batchNum = @ - 1]
         ELSE [o EXCEPT !.pc = "top", !.sleeps = @ + 1, !.loopCount = @ + 1]
    ELSE IF o.ret.h # ZeroHash
         THEN [o EXCEPT !.pc = "done", !.result = [h |-> o.ret.h, err |-> "nil"]]
    ELSE IF WalksBack(o.batchNum, o.ret.previousBatch)
         THEN [o EXCEPT !.pc = "top", !.batchNum = @ - 1]
         ELSE [o EXCEPT !.pc = "top", !.batchNum = o.ret.previousBatch]

\* the body of the loop after the call returned: what the locals become
Handled(o) ==
    IF o.ret.err # "nil"
    THEN IF o.batchNum > 0 /\ ShortResponse(o.ret.err)
         THEN [o EXCEPT !.pc = "top", !.batchNum = @ - 1]
         ELSE [o EXCEPT !.pc = "top", !.sleeps = @ + 1, !.loopCount = @ + 1]
    ELSE IF o.ret.h # ZeroHash
         THEN [o EXCEPT !.pc = "done", !.result = [h |-> o.ret.h, err |-> "nil"]]
    ELSE IF WalksBack(o.batchNum, o.ret.previousBatch)
         THEN [o EXCEPT !.pc = "top", !.batchNum = @ - 1]
         ELSE [o EXCEPT !.pc = "top", !.batchNum = o.ret.previousBatch,
                        !.loopCount = @ + 1]

OahHandle ==
    /\ oah.pc = "handle"
    /\ oah' = [Handled(oah) EXCEPT
                 !.shortAt = IF Handled(oah).pc = "done" THEN @
                             ELSE IF Malformed(oah.resp) /\ oah.batchNum > 0
                                  THEN oah.batchNum
                                  ELSE 0]
    /\ UNCHANGED <<config, engine, ethermanIndex, ethermanMtx, rotator, lqb>>


\* ------------------------------------------------------------ L1QueryBlocks
\* "numThreads << 2"
Shl2(n) == n * 4

\* "if numThreads > 1 && logsSize > (numThreads << 2)"
Striped(numThreads, logsSize) == numThreads > 1 /\ logsSize > Shl2(numThreads)

\* m[key] = block
MapPut(m, key, block) ==
    {e \in m : e.key # key} \cup {[key |-> key, block |-> block]}

\* a caller invokes L1QueryBlocks with n logs, LogsPerBlock logs in each block,
\* on an engine constructed with t block-resolution threads
LqbInvoke ==
    /\ lqb.pc = "idle"
    /\ \E t \in 1..MaxThreads, n \in 0..MaxLogCount :
         lqb' = [NoLqb EXCEPT
                   !.numThreads = t,
                   !.logs = [j \in 1..n |-> (j - 1) \div LogsPerBlock],
                   !.resolvedBy = [j \in 1..n |-> <<>>],
                   !.path = IF Striped(t, n) THEN "striped" ELSE "sequential",
                   !.pc = IF Striped(t, n) THEN "fork" ELSE "sequential"]
    /\ UNCHANGED <<config, engine, ethermanIndex, ethermanMtx, rotator, oah>>

\* one iteration of "for i, l := range logs" when GetBlock succeeds
LqbSeqResolves ==
    /\ lqb.pc = "sequential"
    /\ lqb.i < Len(lqb.logs)
    /\ GetNextEtherman
    /\ LET number == lqb.logs[lqb.i + 1] IN
       lqb' = [lqb EXCEPT !.blocksMap = MapPut(@, number, Block(number)),
                          !.resolvedBy[lqb.i + 1] = Append(@, 0),
                          !.i = @ + 1]
    /\ UNCHANGED <<config, engine, rotator, oah>>

\* one iteration when GetBlock fails: "return nil, err"
LqbSeqFails ==
    /\ lqb.pc = "sequential"
    /\ lqb.i < Len(lqb.logs)
    /\ GetNextEtherman
    /\ LET e == [tab |-> ErrOf(lqb.i), data |-> ErrOf(lqb.i)] IN
       lqb' = [lqb EXCEPT !.pc = "done",
                          !.failed = @ \cup {lqb.i},
                          !.resolvedBy[lqb.i + 1] = Append(@, 0),
                          !.result = [returned |-> TRUE, hasMap |-> FALSE,
                                      blocksMap |-> {}, err |-> e]]
    /\ UNCHANGED <<config, engine, rotator, oah>>

\* the end of the range loop: "return blocksMap, nil"
LqbSeqReturns ==
    /\ lqb.pc = "sequential"
    /\ lqb.i = Len(lqb.logs)
    /\ lqb' = [lqb EXCEPT !.pc = "done",
                          !.result = [returned |-> TRUE, hasMap |-> TRUE,
                                      blocksMap |-> lqb.blocksMap, err |-> NilErr]]
    /\ UNCHANGED <<config, engine, ethermanIndex, ethermanMtx, rotator, oah>>

\* "blocksArray := make(...); wg.Add(numThreads); for i ... go func(cpuI int)"
LqbFork ==
    /\ lqb.pc = "fork"
    /\ lqb' = [lqb EXCEPT
                 !.pc = "wait",
                 !.blocksArray = [j \in 1..Len(lqb.logs) |-> NoBlock],
                 !.th = [c \in 1..lqb.numThreads |-> [pc |-> "loop", j |-> c - 1]]]
    /\ UNCHANGED <<config, engine, ethermanIndex, ethermanMtx, rotator, oah>>

\* "j += numThreads"
NextStripe(j, numThreads) == j + numThreads

\* goroutine c: one iteration of "for j := cpuI; j < logsSize; j += numThreads"
\* when GetBlock succeeds
ThreadResolves(c) ==
    /\ lqb.pc = "wait"
    /\ c \in 1..Len(lqb.th)
    /\ lqb.th[c].pc = "loop"
    /\ lqb.th[c].j < Len(lqb.logs)
    /\ GetNextEtherman
    /\ LET j == lqb.th[c].j IN
       lqb' = [lqb EXCEPT !.blocksArray[j + 1] = Block(lqb.logs[j + 1]),
                          !.resolvedBy[j + 1] = Append(@, c - 1),
                          !.th[c].j = NextStripe(j, lqb.numThreads)]
    /\ UNCHANGED <<config, engine, rotator, oah>>

\* goroutine c: GetBlock fails, "err = e" begins: the first word is stored
ThreadFails(c) ==
    /\ lqb.pc = "wait"
    /\ c \in 1..Len(lqb.th)
    /\ lqb.th[c].pc = "loop"
    /\ lqb.th[c].j < Len(lqb.logs)
    /\ GetNextEtherman
    /\ LET j == lqb.th[c].j IN
       lqb' = [lqb EXCEPT !.err.tab = ErrOf(j),
                          !.failed = @ \cup {j},
                          !.resolvedBy[j + 1] = Append(@, c - 1),
                          !.th[c].pc = "storeErr"]
    /\ UNCHANGED <<config, engine, rotator, oah>>

\* goroutine c: "err = e" ends: the second word is stored; "return"
ThreadStoresErr(c) ==
    /\ lqb.pc = "wait"
    /\ c \in 1..Len(lqb.th)
    /\ lqb.th[c].pc = "storeErr"
    /\ lqb' = [lqb EXCEPT !.err.data = ErrOf(lqb.th[c].j),
                          !.th[c].pc = "done"]
    /\ UNCHANGED <<config, engine, ethermanIndex, ethermanMtx, rotator, oah>>

\* goroutine c: the loop ends, "defer wg.Done()"
ThreadReturns(c) ==
    /\ lqb.pc = "wait"
    /\ c \in 1..Len(lqb.th)
    /\ lqb.th[c].pc = "loop"
    /\ lqb.th[c].j >= Len(lqb.logs)
    /\ lqb' = [lqb EXCEPT !.th[c].pc = "done"]
    /\ UNCHANGED <<config, engine, ethermanIndex, ethermanMtx, rotator, oah>>

\* "for _, block := range blocksArray { blocksMap[block.NumberU64()] = block }"
RECURSIVE MapOfArray(_, _)
MapOfArray(blocksArray, m) ==
    IF blocksArray = <<>> THEN m
    ELSE MapOfArray(Tail(blocksArray),
                    MapPut(m, Head(blocksArray).number, Head(blocksArray)))

\* "wg.Wait(); if err != nil { return nil, err }", else the map is filled and
\* returned
LqbJoin ==
    /\ lqb.pc = "wait"
    /\ \A c \in 1..Len(lqb.th) : lqb.th[c].pc = "done"
    /\ lqb' = IF lqb.err # NilErr
              THEN [lqb EXCEPT !.pc = "done",
                               !.result = [returned |-> TRUE, hasMap |-> FALSE,
                                           blocksMap |-> {}, err |-> lqb.err]]
              ELSE LET m == MapOfArray(lqb.blocksArray, lqb.blocksMap) IN
                   [lqb EXCEPT !.pc = "done", !.blocksMap = m,
                               !.result = [returned |-> TRUE, hasMap |-> TRUE,
                                           blocksMap |-> m, err |-> NilErr]]
    /\ UNCHANGED <<config, engine, ethermanIndex, ethermanMtx, rotator, oah>>

\* ------------------------------------------------------------ specifications
\* The rotator alone, under concurrent clients.
InitRotator == \E n \in RotLens : Constructed(n, 1, NoEnv)

NextRotator == \E p \in RotCallers : RotatorStep(p)

SpecRotator == InitRotator /\ [][NextRotator]_vars

\* The planner alone: queryBlocks entered with lastCheckedL1Block = start,
\* s.latestL1Block = end and s.blockRange = width.
InitPlan ==
    \E start \in 0..MaxPlanBlock, end \in 0..MaxPlanBlock, width \in 1..MaxPlanRange :
       /\ etherMansLen = 1
       /\ blockRange = width
       /\ env = Env(1, 1, end, start, 0, 0, 0)
       /\ used = [NoneUsed EXCEPT !.polls = 1]
       /\ ethermanIndex = 0
       /\ ethermanMtx = 0
       /\ latestL1Block = end
       /\ isSyncStarted = TRUE
       /\ isDownloading = TRUE
       /\ lastCheckedL1Block = start
       /\ run = [c \in Calls |-> IF c = 1 THEN [NoRun EXCEPT !.pc = "done", !.arg = start]
                                           ELSE NoRun]
       /\ loop = [c \in Calls |-> IF c = 1 THEN [pc |-> "queryBlocks",
                                                   latestL1Block |-> end,
                                                   cycle |-> 1]
                                            ELSE NoLoop]
       /\ history = [seeded |-> TRUE, latestKnown |-> TRUE, returnedRuns |-> 1,
                     highest |-> Max(start, end)]
       /\ qb = [k \in Cycles |-> IF k = 1 THEN [NoCycle EXCEPT !.pc = "load"]
                                           ELSE NoCycle]
       /\ wk = [k \in Cycles |-> [w \in Workers |-> NoWorker]]
       /\ gne = [p \in RotCallers |-> NoGne]
       /\ returned = <<>>
       /\ oah = NoOah
       /\ lqb = NoLqb

NextPlan == \E k \in Cycles : Planner(k)

SpecPlan == InitPlan /\ [][NextPlan]_vars

\* The engine with its callers, its poll loops, their cycles and workers.
Next ==
    \/ \E c \in Calls :
         RunCheck(c) \/ RunStoreDownloading(c) \/ RunStoreLastChecked(c) \/ RunGo(c)
    \/ \E l \in Calls :
         \/ LoopStart(l) \/ GetLatestFails(l) \/ GetLatestL1Block(l)
         \/ StoreLatest(l) \/ LoopCompare(l) \/ LoopSetDownloading(l) \/ LoopCommit(l)
         \/ LoopClearDownloading(l)
    \/ \E k \in Cycles :
         Planner(k) \/ QbSpawn(k) \/ QbReceive(k) \/ QbSendLogs(k) \/ QbTick(k)
    \/ \E k \in Cycles, w \in Workers :
         \/ WorkerStops(k, w) \/ WorkerDrained(k, w) \/ WorkerTakes(k, w)
         \/ WorkerQueryFails(k, w) \/ WorkerQuerySucceeds(k, w)

\* Callers that invoke Run as often as they like (MaxRunCalls times).
Init ==
    Constructed(NumEtherMans, BlockRange,
                Env(MaxRunCalls, MaxPolls, MaxBlock, MaxCheckpoint, MaxFails,
                    MaxLogs, MaxTicks))

Spec == Init /\ [][Next]_vars

\* One Run and one poll iteration: a single cycle and its workers.
InitCycle ==
    Constructed(NumEtherMans, BlockRange,
                Env(1, 1, CycleMaxBlock, 0, CycleFails, CycleLogs, CycleTicks))

SpecCycle == InitCycle /\ [][Next]_vars


\* One Run whose poll loop runs for ever.
InitLoop ==
    Constructed(NumEtherMans, BlockRange,
                Endless(Env(1, 0, LoopMaxBlock, LoopMaxCheckpoint, LoopFails,
                            LoopLogs, LoopTicks)))

SpecLoop == InitLoop /\ [][Next]_vars

\* Every goroutine that can take a step eventually takes one: the poll loop
\* with the queryBlocks it calls, and each worker.  The consumers of logsChan
\* and progressMessageChan receive (QbSendLogs and QbTick are the hand-offs),
\* and every endpoint call returns.
LoopSteps(l) ==
    \/ LoopStart(l) \/ GetLatestFails(l) \/ GetLatestL1Block(l)
    \/ StoreLatest(l) \/ LoopCompare(l) \/ LoopSetDownloading(l) \/ LoopCommit(l)
    \/ LoopClearDownloading(l)

CycleSteps(k) == Planner(k) \/ QbSpawn(k) \/ QbReceive(k) \/ QbSendLogs(k)

WorkerSteps(k, w) ==
    \/ WorkerStops(k, w) \/ WorkerDrained(k, w) \/ WorkerTakes(k, w)
    \/ WorkerQueryFails(k, w) \/ WorkerQuerySucceeds(k, w)

Fairness ==
    /\ \A l \in Calls : WF_vars(LoopSteps(l))
    /\ \A k \in Cycles : WF_vars(CycleSteps(k))
    /\ \A k \in Cycles, w \in Workers : WF_vars(WorkerSteps(k, w))

FairLoop == SpecLoop /\ Fairness

\* One Run and one poll iteration under fair scheduling.
FairCycle == SpecCycle /\ Fairness

\* One call of L1QueryBlocks with endpoints whose block lookups may fail.
NextBlocks ==
    \/ LqbInvoke \/ LqbSeqResolves \/ LqbSeqFails \/ LqbSeqReturns
    \/ LqbFork \/ LqbJoin
    \/ \E c \in 1..MaxThreads :
         ThreadResolves(c) \/ ThreadFails(c) \/ ThreadStoresErr(c) \/ ThreadReturns(c)

SpecBlocks == Init /\ [][NextBlocks]_vars

\* One call of GetOldAccInputHash against a contract that may answer anything.
NextResolver == OahInvoke \/ OahTop \/ OahCall \/ OahHandle

SpecResolver == Init /\ [][NextResolver]_vars

\* The same when the caller's goroutine keeps being scheduled and every
\* contract call returns.
FairResolver == SpecResolver /\ WF_vars(NextResolver)

\* ------------------------------------------------------------------- claims
CeilDiv(a, b) == (a + b - 1) \div b

\* queryBlocks of cycle k has planned its jobs and not yet started workers
Planned(k) == qb[k].pc = "spawn"

\* queryBlocks of cycle k is executing
InProgress(k) == qb[k].pc \notin {"none", "return", "done"}

\* C1: when queryBlocks plans with startBlock <= latestL1Block, the jobs are
\* ordered by From, each has From <= To, the first starts at startBlock, the
\* last ends at latestL1Block, each next job starts at To + 1 of the job
\* before, and there are ceil((end - start + 1) / (width + 1)) of them.
C1_RangePlanning ==
    \A k \in Cycles :
       (Planned(k) /\ qb[k].startBlock <= latestL1Block) =>
          LET f == qb[k].fetches
              n == Len(f)
          IN  /\ n = CeilDiv(latestL1Block - qb[k].startBlock + 1, blockRange + 1)
              /\ n >= 1
              /\ f[1].From = qb[k].startBlock
              /\ f[n].To = latestL1Block
              /\ \A i \in 1..n : f[i].From <= f[i].To
              /\ \A i \in 1..(n - 1) :
                    f[i + 1].From = f[i].To + 1 /\ f[i].From < f[i + 1].From

\* start 0, end 6, width 2: two full jobs and a clipped last one
C1_Witness ==
    \E k \in Cycles :
       /\ Planned(k)
       /\ qb[k].fetches = <<[From |-> 0, To |-> 2], [From |-> 3, To |-> 5],
                            [From |-> 6, To |-> 6]>>

\* C2: no job is ever planned with From > To, and a cycle whose start block
\* is greater than the latest block it planned to has no jobs, no log query,
\* and sends nothing on the log channel and the progress channel.
C2_NoProgressPlansNothing ==
    \A k \in Cycles :
       /\ \A i \in 1..Len(qb[k].fetches) :
             qb[k].fetches[i].From <= qb[k].fetches[i].To
       /\ (qb[k].pc \in {"spawn", "receive", "sendLogs", "return", "done"}
             /\ qb[k].startBlock > qb[k].high) =>
             /\ qb[k].fetches = <<>>
             /\ qb[k].sentLogs = <<>>
             /\ qb[k].sentProgress = 0
             /\ \A w \in Workers : wk[k][w].pc # "query"

\* C3: a Run invoked after a Run has returned is a no-op (it stores nothing
\* and starts no loop), and at most one poll loop ever exists.
C3_RunIdempotent ==
    /\ \A c \in Calls : run[c].late => (run[c].pc = "done" /\ loop[c].pc = "none")
    /\ Cardinality({l \in Calls : loop[l].pc # "none"}) <= 1

\* C4: at most one execution of queryBlocks is in progress, and at most one
\* cycle has workers alive.
C4_CyclesNeverOverlap ==
    /\ Cardinality({k \in Cycles : InProgress(k)}) <= 1
    /\ Cardinality({k \in Cycles :
                      \E w \in Workers : wk[k][w].pc \in {"select", "query"}}) <= 1

\* C5: once a Run has stored a checkpoint, lastCheckedL1Block never decreases
\* from one state to the next.
C5_MonotonicCheckpoint ==
    [][history.seeded => lastCheckedL1Block' >= lastCheckedL1Block]_vars

\* C6 as stated: after the first successful latest-block query,
\* lastCheckedL1Block <= latestL1Block.
C6_CheckedAtMostLatest ==
    history.latestKnown => lastCheckedL1Block <= latestL1Block

\* C6 as amended: lastCheckedL1Block never exceeds the greatest of the
\* checkpoints passed to Run and the finalized blocks reported so far.
C6_CheckedAtMostHighest == lastCheckedL1Block <= history.highest

\* a cycle has succeeded and the loop has stored the block it had seen
C6_Witness ==
    /\ history.latestKnown
    /\ lastCheckedL1Block = history.highest
    /\ \E k \in Cycles :
          qb[k].pc = "done" /\ qb[k].err = NoErr /\ qb[k].after > qb[k].before

\* C7: the endpoints are returned in round-robin order from endpoint 0, so
\* each of the N endpoints is returned floor(M/N) or ceil(M/N) times in M
\* calls, and every index returned is within the list.
C7_RoundRobin ==
    LET m == Len(returned)
    IN  /\ \A i \in 1..m : returned[i] = (i - 1) % etherMansLen
        /\ \A e \in 0..(etherMansLen - 1) :
              Cardinality({i \in 1..m : returned[i] = e})
                 \in {m \div etherMansLen, CeilDiv(m, etherMansLen)}

\* the backoffs before attempt n + 1, in seconds
SleptUpTo(n) == [i \in 1..n |-> 2 * i]

\* C8: every attempt of a worker takes an endpoint from the rotator; a
\* failed attempt that is not the 6th sleeps 2, 4, .. seconds and emits
\* nothing; the 6th failed attempt emits the one result of the job, with the
\* last error and no logs, and ends the worker; a successful attempt emits
\* the one result of the job, without error and with Size = To - From; there
\* is never a 7th attempt.
C8_RetryBound ==
    [][\A k \in Cycles, w \in Workers :
          LET me == wk[k][w]
              now == wk'[k][w]
          IN  (me.pc = "query" /\ now # me) =>
                /\ me.queries <= MaxRetries
                /\ me.ethermen = me.queries
                /\ me.slept = SleptUpTo(me.queries)
                /\ ethermanIndex' = IncIndex(WrapIndex(ethermanIndex, etherMansLen))
                /\ \/ /\ now.pc = "query"
                      /\ now.queries = me.queries + 1
                      /\ now.queries <= MaxRetries
                      /\ now.ethermen = now.queries
                      /\ now.slept = SleptUpTo(now.queries)
                      /\ qb'[k] = qb[k]
                   \/ /\ now.pc = "exit"
                      /\ me.queries + 1 = 6
                      /\ me.slept = <<2, 4, 6, 8, 10>>
                      /\ qb'[k].results =
                            Append(qb[k].results,
                                   [Size |-> 0,
                                    Error |-> QueryErr(me.job.From, 6),
                                    Logs |-> <<>>])
                      /\ qb'[k].emitted[me.job.From] = 1
                   \/ /\ now.pc = "select"
                      /\ Len(qb'[k].results) = Len(qb[k].results) + 1
                      /\ Last(qb'[k].results).Error = NoErr
                      /\ Last(qb'[k].results).Size = me.job.To - me.job.From
                      /\ qb'[k].emitted[me.job.From] = 1
      ]_vars

\* a worker has emitted an error result, and a job has succeeded after retries
C8_Witness ==
    \E k \in Cycles :
       /\ Len(qb[k].fetches) >= 2
       /\ \E i \in 1..Len(qb[k].results) :
             qb[k].results[i].Error = QueryErr(qb[k].fetches[2].From, 6)
       /\ \E w \in Workers : wk[k][w].pc = "query" /\ wk[k][w].retry = 3

\* C9: when the coordinator receives an error result it closes stop and
\* returns that error in the same step, however many jobs are outstanding;
\* and once stop is closed nothing more of the cycle is sent on the log
\* channel.
C9_CycleCancellation ==
    [][\A k \in Cycles :
          /\ ( /\ qb[k].pc = "receive"
               /\ qb[k].results # <<>>
               /\ Head(qb[k].results).Error # NoErr
               /\ qb'[k].complete # qb[k].complete ) =>
                  /\ qb'[k].pc = "return"
                  /\ qb'[k].stop = "closed"
                  /\ qb'[k].err = Head(qb[k].results).Error
                  /\ qb'[k].err.attempt = MaxRetries + 1
                  /\ \E i \in 1..Len(qb[k].fetches) :
                        qb[k].fetches[i].From = qb'[k].err.job
          /\ qb[k].stop = "closed" =>
                (qb'[k].stop = "closed" /\ qb'[k].sentLogs = qb[k].sentLogs)
      ]_vars

\* a cycle has returned an error after forwarding logs, with a job still
\* being queried by the other worker
C9_Witness ==
    \E k \in Cycles :
       /\ qb[k].pc \in {"return", "done"}
       /\ qb[k].err # NoErr
       /\ qb[k].stop = "closed"
       /\ qb[k].complete < Len(qb[k].fetches)
       /\ qb[k].sentLogs # <<>>
       /\ \E w \in Workers : wk[k][w].pc = "query"

\* C10: a poll iteration whose cycle returned an error leaves
\* lastCheckedL1Block as it was, and one whose cycle succeeded sets it to the
\* block its cycle planned up to.
C10_NoPartialCommit ==
    \A k \in Cycles :
       qb[k].pc = "done" =>
          IF qb[k].err = NoErr
          THEN qb[k].after = Last(qb[k].fetches).To
          ELSE qb[k].after = qb[k].before

\* C11: when GetOldAccInputHash, started at batch n, got a well-formed zero
\* hash with previousBatchNumber 0 for every batch in k+1..n (k < n) and a
\* non-zero hash for batch k, it returns the hash of batch k with no error,
\* after exactly n - k + 1 contract calls, with the attempt counter still 0
\* and without having slept, however long the walk is.
C11_BackwardWalk ==
    (oah.pc = "done" /\ oah.calls >= 2) =>
        /\ oah.result = [h |-> HashOf(oah.batchNum), err |-> "nil"]
        /\ oah.batchNum < oah.start
        /\ oah.calls = oah.start - oah.batchNum + 1
        /\ oah.loopCount = 0
        /\ oah.sleeps = 0

\* a walk of more than 10 decrements, from batch 11 down to batch 0, returned
C11_Witness ==
    /\ oah.pc = "done"
    /\ oah.calls = MaxLoopCount + 2
    /\ oah.start - oah.batchNum > MaxLoopCount
    /\ oah.result.h = HashOf(0)

\* C12: a response shorter than 96 bytes for a batch number b > 0 is
\* discarded whole, also when its first 32 bytes are a non-zero hash: the
\* resolver returns nothing, decrements the batch number by exactly 1 and goes
\* back to the top of the loop without sleeping and with the attempt counter
\* unchanged; and when the response after a malformed one is a full response
\* with a non-zero hash, the resolver returns that hash, of batch b - 1.
C12_MalformedFallback ==
    [][/\ (oah.pc = "handle" /\ Malformed(oah.resp) /\ oah.batchNum > 0) =>
            /\ oah'.pc = "top"
            /\ oah'.batchNum = oah.batchNum - 1
            /\ oah'.loopCount = oah.loopCount
            /\ oah'.sleeps = oah.sleeps
            /\ oah.loopCount < MaxLoopCount
       /\ (/\ oah.pc = "handle" /\ oah.shortAt > 0
           /\ ~oah.resp.failed /\ oah.resp.len >= RespBytes
           /\ oah.resp.hash # ZeroHash) =>
            /\ oah'.pc = "done"
            /\ oah'.result = [h |-> HashOf(oah.shortAt - 1), err |-> "nil"]
      ]_vars

\* the response for batch 3 was shorter than 96 bytes and was discarded, and
\* the hash the contract then gave for batch 2 was returned
C12_Witness ==
    /\ oah.pc = "done"
    /\ oah.start = 3
    /\ oah.shortAt = 3
    /\ oah.resp.hash = HashOf(2)
    /\ oah.result = [h |-> HashOf(2), err |-> "nil"]
    /\ oah.loopCount = 0

\* the call returned an error that is not a short response handled by a
\* decrement of the batch number
CountedError(o) ==
    o.ret.err # "nil" /\ ~(o.batchNum > 0 /\ ShortResponse(o.ret.err))

\* the call returned a zero hash and the batch number is set to previousBatch
PointerFollow(o) ==
    /\ o.ret.err = "nil"
    /\ o.ret.h = ZeroHash
    /\ ~(o.batchNum > 0 /\ o.ret.previousBatch = 0)

\* C13: loopCount is one counter for the whole resolution: it never changes
\* except by +1, and it is incremented exactly when the loop body handles a
\* call error that is not a short response handled by decrement, or follows
\* previousBatch after a zero hash; "too many retries" is returned exactly
\* when the counter is 10 at the top of the loop, and no contract call is made
\* with the counter at 10.
C13_AttemptBudget ==
    [][/\ oah.pc # "idle" =>
            /\ oah'.loopCount \in {oah.loopCount, oah.loopCount + 1}
            /\ oah'.loopCount = oah.loopCount + 1
                 <=> (oah.pc = "handle" /\ (CountedError(oah) \/ PointerFollow(oah)))
       /\ (oah.pc = "handle" /\ PointerFollow(oah)) =>
            oah'.batchNum = oah.ret.previousBatch
       /\ oah'.loopCount <= MaxLoopCount
       /\ (oah.pc = "top" /\ oah.loopCount = MaxLoopCount) =>
            (oah'.pc = "done" /\ oah'.result.err = "too many retries")
       /\ (oah'.pc = "done" /\ oah'.result.err = "too many retries") =>
            oah.loopCount = MaxLoopCount
       /\ oah'.pc = "handle" => oah.loopCount < MaxLoopCount
      ]_vars

\* the budget was spent by errors and by pointer follows together, at
\* several batch numbers
C13_Witness ==
    /\ oah.pc = "done"
    /\ oah.result.err = "too many retries"
    /\ oah.loopCount = MaxLoopCount
    /\ oah.sleeps \in 1..(MaxLoopCount - 1)
    /\ oah.batchNum # oah.start

\* C14: every call of GetOldAccInputHash returns, whatever the contract
\* answers (errors, short responses, zero hashes with any previousBatchNumber,
\* also one above the current batch number); it returns either a non-zero hash
\* with no error or the zero hash with "too many retries"; and a call that
\* started at batch 0 and got only well-formed zero hashes with
\* previousBatchNumber 0 returns "too many retries".
C14_ResolverTerminates ==
    /\ [](oah.pc = "done" =>
            \/ oah.result.err = "nil" /\ oah.result.h # ZeroHash
            \/ oah.result = [h |-> ZeroHash, err |-> "too many retries"])
    /\ [](oah.pc = "done" /\ oah.zeroAtZero =>
            oah.result.err = "too many retries")
    /\ (oah.pc = "top" ~> oah.pc = "done")

\* a call at batch 0 that got ten zero hashes with previousBatchNumber 0
C14_Witness ==
    /\ oah.pc = "done"
    /\ oah.start = 0
    /\ oah.zeroAtZero
    /\ oah.loopCount = MaxLoopCount
    /\ oah.result = [h |-> ZeroHash, err |-> "too many retries"]

\* C15: once the stop channel of a cycle is closed, a worker of the cycle
\* that is at its select takes no further job from the job queue.
C15_NoPullAfterStop ==
    [][\A k \in Cycles, w \in Workers :
          (qb[k].stop = "closed" /\ wk[k][w].pc = "select") =>
              wk'[k][w].pc # "query"]_vars

\* C16: a worker that is retrying a failing job makes no new attempt once
\* stop is closed.  An attempt is one step of the model, so the first attempt
\* made with stop closed may be the one that was in flight when stop was
\* closed; a second one was started after it.
C16_NoRetryAfterStop ==
    \A k \in Cycles, w \in Workers : wk[k][w].sinceStop <= 1

\* the job starting at from is in the job queue of cycle k
Queued(k, from) == \E i \in 1..Len(qb[k].jobs) : qb[k].jobs[i].From = from

\* the workers of cycle k that hold the job starting at from
Holders(k, from) ==
    {w \in Workers : wk[k][w].pc = "query" /\ wk[k][w].job.From = from}

\* C17: in a cycle, every planned job is in the queue, or held by exactly one
\* worker, or has produced exactly one result, and never two of these; when
\* the cycle returns nil every job has produced one result, every result has
\* been received and none carried an error, and the log sets sent on logsChan
\* are the non-empty log sets of the results, each once, in the order in
\* which the workers sent the results; no empty log set is ever sent.
C17_FanInAccounting ==
    \A k \in Cycles :
       /\ qb[k].pc \in {"receive", "sendLogs", "return", "done"} =>
            \A i \in 1..Len(qb[k].fetches) :
               LET from == qb[k].fetches[i].From IN
               (IF Queued(k, from) THEN 1 ELSE 0) + Cardinality(Holders(k, from))
                  + qb[k].emitted[from] = 1
       /\ \A i \in 1..Len(qb[k].sentLogs) : qb[k].sentLogs[i] # <<>>
       /\ (qb[k].pc \in {"return", "done"} /\ qb[k].err = NoErr) =>
            /\ qb[k].complete = Len(qb[k].fetches)
            /\ qb[k].results = <<>>
            /\ \A i \in 1..Len(qb[k].fetches) :
                 qb[k].emitted[qb[k].fetches[i].From] = 1
            /\ qb[k].sentLogs = qb[k].emittedLogs
            /\ qb[k].stop = "closed"

\* a cycle of three jobs returned nil; two jobs had logs, in the order 2, 0
C17_Witness ==
    \E k \in Cycles :
       /\ qb[k].pc = "return"
       /\ qb[k].err = NoErr
       /\ Len(qb[k].fetches) = 3
       /\ qb[k].sentLogs = <<(<<2>>), (<<0>>)>>

\* the poll loop never stops: a failed latest-block query and a failed cycle
\* lead to the clearing of isDownloading and from there to the next poll;
\* isSyncStarted is never cleared; a cycle is started only when the block the
\* loop has seen is above lastCheckedL1Block
LoopKeepsPolling ==
    /\ [][\A l \in Calls :
            /\ (loop[l].pc = "poll" /\ loop'[l].pc \notin {"poll", "storeLatest"}) =>
                  loop'[l].pc = "clearDownloading"
            /\ (loop[l].pc = "queryBlocks" /\ loop'[l].pc # "queryBlocks") =>
                  loop'[l].pc = "clearDownloading"
            /\ (loop[l].pc = "clearDownloading" /\ loop'[l].pc # "clearDownloading") =>
                  (loop'[l].pc = "poll" /\ ~isDownloading')
            /\ (loop[l].pc = "compare" /\ loop'[l].pc = "setDownloading") =>
                  loop[l].latestL1Block > lastCheckedL1Block
            /\ loop[l].pc # "none" => loop'[l].pc # "none"
            /\ isSyncStarted => isSyncStarted']_vars
    /\ \A l \in Calls : loop[l].pc \notin {"none", "poll"} ~> loop[l].pc = "poll"

\* C18 (as stated): the poll loop never stops, and once the loop is started
\* lastCheckedL1Block eventually equals the latest finalized block reported.
C18_EventuallyEqualsLatest ==
    /\ LoopKeepsPolling
    /\ \A l \in Calls :
         loop[l].pc = "start" ~>
            (history.latestKnown /\ lastCheckedL1Block = latestL1Block)

\* C18 (amended): the poll loop never stops, and once the loop is started
\* lastCheckedL1Block is, again and again, at least the latest finalized block
\* reported; after every cycle that returned nil it is the block the
\* iteration had seen.
C18_EventuallyReachesLatest ==
    /\ LoopKeepsPolling
    /\ \A l \in Calls :
         loop[l].pc = "start" ~>
            (history.latestKnown /\ lastCheckedL1Block >= latestL1Block)
    /\ [][\A l \in Calls :
            (loop[l].pc = "queryBlocks" /\ loop'[l].pc # "queryBlocks"
             /\ qb[loop[l].cycle].err = NoErr) =>
                lastCheckedL1Block' = loop[l].latestL1Block]_vars

\* the loop polled again after a cycle that failed, and the cycle of a later
\* iteration brought lastCheckedL1Block to the latest block
C18_Witness ==
    \E l \in Calls :
       /\ loop[l].pc = "poll"
       /\ \E k \in Cycles : qb[k].pc = "done" /\ qb[k].err # NoErr
       /\ \E k \in Cycles : qb[k].pc = "done" /\ qb[k].err = NoErr
       /\ history.latestKnown
       /\ lastCheckedL1Block = latestL1Block
       /\ lastCheckedL1Block > 0
       /\ ~isDownloading
       /\ isSyncStarted

\* the block numbers of the logs L1QueryBlocks was called with
LogBlocks == {lqb.logs[j] : j \in 1..Len(lqb.logs)}

\* C19: the striped path is taken exactly when T > 1 and there are more than
\* 4 * T logs; on it log i is looked up by goroutine i mod T, and no log is
\* looked up twice; when a lookup failed the call returns no map and the
\* error of a lookup that failed; when none failed it returns nil and a map
\* with the block of every input log under its block number, every lookup
\* having been made once.
C19_QueryBlocks ==
    /\ lqb.pc # "idle" =>
         (lqb.path = "striped"
            <=> (lqb.numThreads > 1 /\ Len(lqb.logs) > 4 * lqb.numThreads))
    /\ \A j \in 1..Len(lqb.resolvedBy) :
         /\ Len(lqb.resolvedBy[j]) <= 1
         /\ lqb.resolvedBy[j] # <<>> =>
              lqb.resolvedBy[j][1] = IF lqb.path = "striped"
                                     THEN (j - 1) % lqb.numThreads ELSE 0
    /\ lqb.result.returned =>
         IF lqb.failed # {}
         THEN /\ ~lqb.result.hasMap
              /\ \E j \in lqb.failed :
                   lqb.result.err = [tab |-> ErrOf(j), data |-> ErrOf(j)]
         ELSE /\ lqb.result.hasMap
              /\ lqb.result.err = NilErr
              /\ lqb.result.blocksMap = {[key |-> b, block |-> Block(b)] : b \in LogBlocks}
              /\ \A j \in 1..Len(lqb.resolvedBy) : Len(lqb.resolvedBy[j]) = 1

\* C20: no worker is blocked for ever.  A worker that holds a job always
\* finds room in the results channel, also after queryBlocks returned; stop
\* is open exactly while queryBlocks receives and closed from its return on;
\* and every worker a cycle started eventually returns, whether the cycle
\* returned nil or an error.
C20_WorkersExit ==
    /\ [](\A k \in Cycles :
            /\ Len(qb[k].results)
                 + Cardinality({w \in Workers : wk[k][w].pc = "query"})
                 <= Len(qb[k].fetches)
            /\ qb[k].pc \in {"receive", "sendLogs"} => qb[k].stop = "open"
            /\ qb[k].pc \in {"return", "done"} => qb[k].stop = "closed")
    /\ [][\A k \in Cycles : qb'[k].stop # qb[k].stop =>
            \/ qb[k].stop = "none" /\ qb'[k].stop = "open"
            \/ qb[k].stop = "open" /\ qb'[k].stop = "closed"]_vars
    /\ \A k \in Cycles, w \in Workers :
         wk[k][w].pc \in {"select", "query"} ~> wk[k][w].pc = "exit"

\* a cycle returned an error while its other worker was still retrying, and
\* both workers have returned since
C20_Witness ==
    \E k \in Cycles :
       /\ qb[k].pc \in {"return", "done"}
       /\ qb[k].err # NoErr
       /\ qb[k].results # <<>>
       /\ \A w \in Workers : wk[k][w].pc = "exit"

====
